---- MODULE Spec2Model ----
(***************************************************************************)
(* Loop generator backend: the /process-video handler (backend/main.py)    *)
(* and VideoProcessor (backend/services/ffmpeg_processor.py).              *)
(*                                                                         *)
(* Time is counted in units of 1/120 s, so that every quantity the code    *)
(* computes on the modelled inputs is an exact integer: base durations,    *)
(* pauses and crossfade lengths are given in tenths of a second (12        *)
(* units), speed 2.0 and clip/2 halve them, and one frame at 15, 30, 60 or *)
(* 120 fps is 8, 4, 2 or 1 units. Python floats are modelled as these      *)
(* exact rationals. Speeds are counted in tenths (5 = 0.5x, 20 = 2.0x).    *)
(*                                                                         *)
(* The working directory is a function from paths to the file's writer and *)
(* duration. ffmpeg and ffprobe are outside the repository: an invocation  *)
(* either succeeds and writes its whole output, or fails and writes        *)
(* nothing; a probe answers, exits with an error, answers garbage or       *)
(* exceeds its timeout.                                                    *)
(***************************************************************************)
EXTENDS Integers, Sequences, FiniteSets, TLC

VARIABLES pc, req, plan, files, response, failure, engineLog, probeLog,
          touched, nextToken, norm

\* the state of the request pipeline
pipeline == <<pc, req, plan, files, response, failure, engineLog, probeLog,
              touched, nextToken>>

vars == <<pipeline, norm>>

----------------------------------------------------------------------------
(* Bounds *)

NumReq == 2
MaxTarget == 3
MaxPad == 2
MaxLen == 3
MaxSpeed == 25

Reqs == 1 .. NumReq

----------------------------------------------------------------------------
(* Units and arithmetic *)

UnitsPerSec == 12 * 10
Deci(x) == 12 * x
Sec(x) == UnitsPerSec * x

Max(a, b) == IF a >= b THEN a ELSE b
Min(a, b) == IF a <= b THEN a ELSE b

\* math.ceil(n / d) for n >= 0, d > 0
Ceil(n, d) == (n + d - 1) \div d

\* Python round(n / d) for n >= 0, d > 0: ties go to the even integer
Round(n, d) ==
    LET q == n \div d
        rem == n % d
    IN  IF 2 * rem < d THEN q
        ELSE IF 2 * rem > d THEN q + 1
        ELSE IF q % 2 = 0 THEN q ELSE q + 1

----------------------------------------------------------------------------
(* Strings that the code strips are sequences of characters *)

Original == <<"O", "r", "i", "g", "i", "n", "a", "l">>
R480p == <<"4", "8", "0", "p">>
R720p == <<"7", "2", "0", "p">>
R1080p == <<"1", "0", "8", "0", "p">>
R4K == <<"4", "K">>

Whitespace == {" ", "\t", "\n"}

RECURSIVE LStrip(_)
LStrip(s) == IF s # <<>> /\ Head(s) \in Whitespace THEN LStrip(Tail(s)) ELSE s

RECURSIVE RStrip(_)
RStrip(s) ==
    IF s # <<>> /\ s[Len(s)] \in Whitespace
    THEN RStrip(SubSeq(s, 1, Len(s) - 1))
    ELSE s

\* str.strip()
Strip(s) == RStrip(LStrip(s))

SupportedResolutions == {Original, R720p, R1080p, R4K}

\* main.py: r = (resolution or "").strip() or "Original"; r if r in (...) else "Original"
FormResolution(resolution) ==
    LET r == IF Strip(resolution) = <<>> THEN Original ELSE Strip(resolution)
    IN  IF r \in SupportedResolutions THEN r ELSE Original

----------------------------------------------------------------------------
(* Python values: the arguments the two normalizers accept. num is the    *)
(* number (a float in tenths, an int as itself), text the characters of a *)
(* str.                                                                    *)

PyNone == [type |-> "NoneType", num |-> 0, text |-> <<>>]
PyStr(s) == [type |-> "str", num |-> 0, text |-> s]
PyFloat(tenths) == [type |-> "float", num |-> tenths, text |-> <<>>]
PyInt(n) == [type |-> "int", num |-> n, text |-> <<>>]
PyList == [type |-> "list", num |-> 0, text |-> <<>>]

\* not x
Falsy(x) ==
    \/ x.type = "NoneType"
    \/ x.type = "str" /\ x.text = <<>>
    \/ x.type \in {"float", "int"} /\ x.num = 0
    \/ x.type = "list"

DigitValue ==
    [c \in {"0", "1", "2", "3", "4", "5", "6", "7", "8", "9"} |->
        CASE c = "0" -> 0 [] c = "1" -> 1 [] c = "2" -> 2 [] c = "3" -> 3
          [] c = "4" -> 4 [] c = "5" -> 5 [] c = "6" -> 6 [] c = "7" -> 7
          [] c = "8" -> 8 [] c = "9" -> 9]

IsDigits(s) == \A i \in 1 .. Len(s) : s[i] \in DOMAIN DigitValue

RECURSIVE Decimal(_)
Decimal(s) ==
    IF s = <<>> THEN 0
    ELSE 10 * Decimal(SubSeq(s, 1, Len(s) - 1)) + DigitValue[s[Len(s)]]

RECURSIVE Pow10(_)
Pow10(k) == IF k = 0 THEN 1 ELSE 10 * Pow10(k - 1)

\* float(text) for texts of digits, ".", "-" and whitespace: the value is
\* n / scale, and ok is FALSE where Python raises ValueError
ParseFloat(text) ==
    LET s == Strip(text)
        negative == s # <<>> /\ Head(s) = "-"
        body == IF negative THEN Tail(s) ELSE s
        dots == {i \in 1 .. Len(body) : body[i] = "."}
        dot == IF dots = {} THEN Len(body) + 1
               ELSE CHOOSE i \in dots : \A j \in dots : i <= j
        whole == SubSeq(body, 1, dot - 1)
        frac == SubSeq(body, dot + 1, Len(body))
        valid == IsDigits(whole) /\ IsDigits(frac) /\ Len(whole) + Len(frac) > 0
        magnitude == Decimal(whole) * Pow10(Len(frac)) + Decimal(frac)
    IN  IF valid
        THEN [ok |-> TRUE, n |-> IF negative THEN 0 - magnitude ELSE magnitude,
              scale |-> Pow10(Len(frac))]
        ELSE [ok |-> FALSE, n |-> 0, scale |-> 1]

\* float(x): ok is FALSE where Python raises TypeError or ValueError
float(x) ==
    IF x.type = "float" THEN [ok |-> TRUE, n |-> x.num, scale |-> 10]
    ELSE IF x.type = "int" THEN [ok |-> TRUE, n |-> x.num, scale |-> 1]
    ELSE IF x.type = "str" THEN ParseFloat(x.text)
    ELSE [ok |-> FALSE, n |-> 0, scale |-> 1]

SupportedSpeeds == {5, 10, 20}

_normalize_resolution(resolution) ==
    IF Falsy(resolution) \/ resolution.type # "str" THEN PyStr(Original)
    ELSE IF Strip(resolution.text) \in SupportedResolutions
    THEN PyStr(Strip(resolution.text))
    ELSE PyStr(Original)

\* the supported speed returned as the speed it multiplies by: 1 / s
_normalize_speed_reciprocal(speed) ==
    IF speed.type = "NoneType" THEN PyFloat(10)
    ELSE LET s == float(speed)
             hit == {t \in SupportedSpeeds : s.ok /\ 10 * s.n = t * s.scale}
         IN  IF hit # {} THEN PyFloat(100 \div (CHOOSE t \in hit : TRUE))
             ELSE PyFloat(10)

_normalize_speed(speed) ==
    IF speed.type = "NoneType" THEN PyFloat(10)
    ELSE LET s == float(speed)
             hit == {t \in SupportedSpeeds : s.ok /\ 10 * s.n = t * s.scale}
         IN  IF hit # {} THEN PyFloat(CHOOSE t \in hit : TRUE)
             ELSE PyFloat(10)

_scale_height_from_resolution(resolution) ==
    IF resolution = R480p THEN 480
    ELSE IF resolution = R720p THEN 720
    ELSE IF resolution = R1080p THEN 1080
    ELSE IF resolution = R4K THEN 2160
    ELSE 0

----------------------------------------------------------------------------
(* Loop planner: VideoProcessor.process and crossfade_loop *)

LoopModes == {"simple", "pingpong", "crossfade"}

LimitHeight == 720
DefaultFps == 30

\* base_duration / speed
EffectiveDuration(base_duration, speed) == (base_duration * 10) \div speed

\* the repeat count of a forward-and-backward round trip
LoopsPerRoundTrip(target_duration, effective_duration) ==
    Max(1, Ceil(Sec(target_duration), 2 * effective_duration))

\* max(1, math.ceil(target_duration / effective_duration))
Loops(target_duration, effective_duration) ==
    Max(1, Ceil(Sec(target_duration), effective_duration))

\* the 720p limit applied from 720 pixels on instead of above 720
ResolveResolutionFrom720(target_resolution, input_height, mode) ==
    LET limited == IF target_resolution = Original /\ input_height >= LimitHeight
                   THEN R720p
                   ELSE target_resolution
    IN  IF mode = "crossfade" THEN R480p ELSE limited

ResolveResolution(target_resolution, input_height, mode) ==
    LET limited == IF target_resolution = Original /\ input_height > LimitHeight
                   THEN R720p
                   ELSE target_resolution
    IN  IF mode = "crossfade" THEN R480p ELSE limited

\* max(1, round(input_fps * speed))
OutFps(input_fps, speed) == Max(1, Round(input_fps * speed, 10))

\* one frame of the stream the pause segment is cut from
OneFrameDuration(input_fps, speed) ==
    UnitsPerSec \div (IF speed # 10 THEN OutFps(input_fps, speed) ELSE input_fps)

MinCrossfade == UnitsPerSec \div 10

\* max(0.1, min(crossfade_seconds, clip_duration / 2))
Crossfade(crossfade_seconds, clip_duration) ==
    Max(MinCrossfade, Min(crossfade_seconds, clip_duration \div 2))

\* max(0.0, clip_duration - crossfade)
Offset(clip_duration, crossfade) == Max(0, clip_duration - crossfade)

\* the rounded quotient without the lower bounds of 1
CrossfadeLoopCountUnclamped(target_duration, cycle_duration) ==
    Round(Sec(target_duration), cycle_duration)

\* the planner's rounding up applied to the cycle
CrossfadeLoopCountCeil(target_duration, cycle_duration) ==
    Max(1, Ceil(Sec(target_duration), cycle_duration))

\* approx_loops = max(1, target_duration / cycle_duration);
\* loop_count = max(1, int(round(approx_loops)))
CrossfadeLoopCount(target_duration, cycle_duration) ==
    IF Sec(target_duration) <= cycle_duration
    THEN 1
    ELSE Max(1, Round(Sec(target_duration), cycle_duration))

\* ffmpeg's xfade: the first input up to the offset, then the second input
XfadeDuration(second, offset) == offset + second

----------------------------------------------------------------------------
(* Probes: the outcome of the ffprobe run is the environment's choice *)

ProbeOutcomes == {"ok", "error", "timeout", "garbage"}

Raised == [raised |-> TRUE, value |-> 0]
Returned(v) == [raised |-> FALSE, value |-> v]

\* a non-zero exit and a non-numeric answer raise RuntimeError, a timeout
\* raises subprocess.TimeoutExpired
get_video_duration(outcome, value) ==
    IF outcome = "ok" THEN Returned(value) ELSE Raised

get_video_height(outcome, value) ==
    IF outcome = "timeout" THEN Raised
    ELSE IF outcome = "ok" THEN Returned(value)
    ELSE Returned(0)

get_video_fps(outcome, value) ==
    IF outcome = "timeout" THEN Raised
    ELSE IF outcome = "ok" THEN Returned(value)
    ELSE Returned(DefaultFps)

ProbeStatus(outcome, result) ==
    IF result.raised THEN "raised" ELSE IF outcome = "ok" THEN "ok" ELSE "failed"

----------------------------------------------------------------------------
(* Paths in the working directory *)

NoPath == [role |-> "none", stem |-> 0, tag |-> ""]

\* TEMP_DIR / f"input_{uuid4().hex}{input_suffix}"
InputPath(uuid) == [role |-> "input", stem |-> uuid, tag |-> ""]

Stem(path) == path.stem

\* a temporary name that leaves out the stem of the input
TempPathWithoutStem(role, input_path) == [role |-> role, stem |-> 0, tag |-> ""]

\* self.temp_dir / f"{role}_{input_path.stem}.mp4"
TempPath(role, input_path) == [role |-> role, stem |-> Stem(input_path), tag |-> ""]

\* self.temp_dir / f"output_{input_path.stem}_{mode.value}.mp4"
OutputPath(input_path, mode) ==
    [role |-> "output", stem |-> Stem(input_path), tag |-> mode]

IntermediateRoles ==
    {"paused", "prepared", "temp_a", "temp_b", "temp_pause", "concat", "cycle",
     "cross", "looped"}

Unlink(fs, paths) == [p \in (DOMAIN fs) \ paths |-> fs[p]]

WriteFile(fs, path, r, dur) ==
    [p \in (DOMAIN fs) \cup {path} |->
        IF p = path THEN [writer |-> r, dur |-> dur] ELSE fs[p]]

FilesOf(r) == {p \in DOMAIN files : files[p].writer = r}

----------------------------------------------------------------------------
(* Requests: the form fields of /process-video and the uploaded clip.     *)
(* duration_seconds is in seconds, speed in tenths, the other times and   *)
(* the clip's duration in tenths of a second.                             *)

ModeInputs == LoopModes \cup {"bogus"}
TargetInputs == 0 .. MaxTarget
SpeedInputs == {5, 10, 20, 30}
PauseInputs == {0, 10}
CrossfadeInputs == {-5, 0, 5, 30}
ResolutionInputs ==
    {Original, R720p, R1080p, R4K, <<" ">> \o R720p \o <<" ">>, <<"8", "K">>}
ClipDurations == {1, 10}
ClipHeights == {720, 1080}
ClipFps == {60}

Clips == [duration : ClipDurations, height : ClipHeights, fps : ClipFps]

Request(duration_seconds, mode, crossfade_seconds, start_pause_seconds, end_pause_seconds, resolution, speed, clip) ==
    [duration_seconds |-> duration_seconds, mode |-> mode,
     crossfade_seconds |-> crossfade_seconds,
     start_pause_seconds |-> start_pause_seconds,
     end_pause_seconds |-> end_pause_seconds,
     resolution |-> resolution, speed |-> speed, clip |-> clip]

\* a mode's requests vary the fields the mode reads; the others keep the
\* form's defaults (crossfade 1.0, pauses 0.0)
PauseRequests ==
    {Request(t, m, 10, sp, ep, res, s, c) :
        t \in TargetInputs, m \in {"simple", "pingpong"}, sp \in PauseInputs,
        ep \in PauseInputs, res \in ResolutionInputs, s \in SpeedInputs,
        c \in Clips}

CrossfadeRequests ==
    {Request(t, "crossfade", cs, 0, 0, res, s, c) :
        t \in TargetInputs, cs \in CrossfadeInputs, res \in ResolutionInputs,
        s \in SpeedInputs, c \in Clips}

BogusRequests ==
    {Request(t, "bogus", 10, 0, 0, Original, s, c) :
        t \in TargetInputs, s \in SpeedInputs, c \in Clips}

Clip(duration, height) == [duration |-> duration, height |-> height, fps |-> 60]

\* the worked examples: 5 s clip repeated to 20 s; 8 s clip ping-ponged
\* with 1 s pauses to 40 s; 8 s clip cross-dissolved over 4 s to 29 s
\* (wraparound pass taken) and to 5 s (wraparound pass skipped)
SimpleExample == Request(20, "simple", 10, 0, 0, Original, 10, Clip(50, 720))
PingPongExample == Request(40, "pingpong", 10, 10, 10, Original, 10, Clip(80, 720))
WrapExample == Request(29, "crossfade", 40, 0, 0, Original, 10, Clip(80, 720))
SkipExample == Request(5, "crossfade", 40, 0, 0, Original, 10, Clip(80, 720))

\* 0.8 s clip cross-dissolved over 0.4 s to 3 s: 2.5 cycles of 1.2 s
TieExample == Request(3, "crossfade", 4, 0, 0, Original, 10, Clip(8, 720))

ExampleRequests == {SimpleExample, PingPongExample, WrapExample, SkipExample}

Requests ==
    PauseRequests \cup CrossfadeRequests \cup BogusRequests \cup ExampleRequests
        \cup {TieExample}

NoRequest == Request(0, "", 0, 0, 0, <<>>, 0, Clip(0, 0))

NoPlan ==
    [input_path |-> NoPath, output_path |-> NoPath, resolution |-> <<>>,
     target_resolution |-> <<>>, speed |-> 0, base_duration |-> 0,
     effective_duration |-> 0, loops |-> 0, input_height |-> 0, input_fps |-> 0,
     loop_source |-> NoPath, crossfade |-> 0, cycle_duration |-> 0,
     loop_count |-> 0, L |-> 0, output_duration |-> 0]

----------------------------------------------------------------------------
(* State *)

\* no normalizer call in progress
NoCall == [fn |-> "none", given |-> PyNone, results |-> <<>>]

InitPipeline ==
    /\ pc = [r \in Reqs |-> "idle"]
    /\ req = [r \in Reqs |-> NoRequest]
    /\ plan = [r \in Reqs |-> NoPlan]
    /\ files = <<>>
    /\ response = [r \in Reqs |-> 0]
    /\ failure = [r \in Reqs |-> "none"]
    /\ engineLog = [r \in Reqs |-> <<>>]
    /\ probeLog = [r \in Reqs |-> <<>>]
    /\ touched = [r \in Reqs |-> {}]
    /\ nextToken = 1

Init == InitPipeline /\ norm = NoCall

\* one run of ffmpeg.run through run_ffmpeg_safe
Invocation(name, reads, out, stream_loop, ok) ==
    [name |-> name, reads |-> reads, out |-> out, stream_loop |-> stream_loop,
     ok |-> ok]

\* an invocation together with the filter graph it runs
Filtered(inv, graph) == inv @@ [graph |-> graph]

\* a failed run followed by a second run of the same invocation
RanWithRetry(r, inv) ==
    engineLog' = [engineLog EXCEPT ![r] = Append(Append(@, [inv EXCEPT !.ok = FALSE]), inv)]

Ran(r, inv) == engineLog' = [engineLog EXCEPT ![r] = Append(@, inv)]

Probed(r, entries) == probeLog' = [probeLog EXCEPT ![r] = @ \o entries]

Touch(r, paths) == touched' = [touched EXCEPT ![r] = @ \cup paths]

\* main.py, except Exception around the call of process: the input is
\* unlinked and the answer is 500; fs is the directory as the failed step
\* left it
Raise(r, why, fs, paths) ==
    /\ files' = Unlink(fs, {plan[r].input_path})
    /\ Touch(r, paths \cup {plan[r].input_path})
    /\ response' = [response EXCEPT ![r] = 500]
    /\ failure' = [failure EXCEPT ![r] = why]
    /\ pc' = [pc EXCEPT ![r] = "done"]

\* an engine invocation fails: run_ffmpeg_safe raises RuntimeError
EngineFailsAfter(r, inv, fs, probes) ==
    /\ Ran(r, inv)
    /\ Probed(r, probes)
    /\ Raise(r, "engine", fs, inv.reads \cup {inv.out})
    /\ UNCHANGED <<norm, req, plan, nextToken>>

EngineFails(r, inv, fs) == EngineFailsAfter(r, inv, fs, <<>>)

\* the structural checks extended to the speed
RejectedWithSpeed(p) ==
    \/ p.duration_seconds <= 0
    \/ p.mode \notin LoopModes
    \/ p.speed \notin {5, 10, 20}

\* main.py: the structural checks that answer 400
Rejected(p) == p.duration_seconds <= 0 \/ p.mode \notin LoopModes

\* main.py, process_video up to the call of process
process_video(r, P) ==
    /\ pc[r] = "idle"
    /\ \E p \in P :
        /\ req' = [req EXCEPT ![r] = p]
        /\ IF Rejected(p)
           THEN /\ response' = [response EXCEPT ![r] = 400]
                /\ pc' = [pc EXCEPT ![r] = "done"]
                /\ UNCHANGED <<plan, files, touched, nextToken>>
           ELSE LET input_path == InputPath(nextToken)
                IN  /\ plan' = [plan EXCEPT ![r] =
                            [NoPlan EXCEPT !.input_path = input_path,
                                           !.resolution = FormResolution(p.resolution)]]
                    /\ files' = WriteFile(files, input_path, r, Deci(p.clip.duration))
                    /\ Touch(r, {input_path})
                    /\ nextToken' = nextToken + 1
                    /\ pc' = [pc EXCEPT ![r] = "process"]
                    /\ UNCHANGED response
    /\ UNCHANGED <<norm, failure, engineLog, probeLog>>

FirstStep(mode) ==
    IF mode = "simple" THEN "simple_prepare"
    ELSE IF mode = "pingpong" THEN "pingpong_a"
    ELSE "crossfade_cycle"

\* VideoProcessor.process up to the dispatch on the mode
process(r, O) ==
    /\ pc[r] = "process"
    /\ \E dOut \in O, hOut \in O, fOut \in O :
        LET p == req[r]
            input_path == plan[r].input_path
            target_resolution == _normalize_resolution(PyStr(plan[r].resolution)).text
            speed == _normalize_speed(PyFloat(p.speed)).num
            d == get_video_duration(dOut, files[input_path].dur)
            h == get_video_height(hOut, p.clip.height)
            f == get_video_fps(fOut, p.clip.fps)
            dEntry == <<"duration", ProbeStatus(dOut, d)>>
            hEntry == <<"height", ProbeStatus(hOut, h)>>
            fEntry == <<"fps", ProbeStatus(fOut, f)>>
            effective_duration == EffectiveDuration(d.value, speed)
        IN  IF d.raised \/ d.value <= 0
            THEN /\ Probed(r, <<dEntry>>)
                 /\ Raise(r, "duration_probe", files, {})
                 /\ UNCHANGED plan
            ELSE IF h.raised
            THEN /\ Probed(r, <<dEntry, hEntry>>)
                 /\ Raise(r, "height_probe", files, {})
                 /\ UNCHANGED plan
            ELSE IF f.raised
            THEN /\ Probed(r, <<dEntry, hEntry, fEntry>>)
                 /\ Raise(r, "fps_probe", files, {})
                 /\ UNCHANGED plan
            ELSE /\ Probed(r, <<dEntry, hEntry, fEntry>>)
                 /\ plan' = [plan EXCEPT ![r] =
                        [@ EXCEPT !.output_path = OutputPath(input_path, p.mode),
                                  !.target_resolution =
                                      ResolveResolution(target_resolution, h.value, p.mode),
                                  !.speed = speed,
                                  !.base_duration = d.value,
                                  !.effective_duration = effective_duration,
                                  !.loops = Loops(p.duration_seconds, effective_duration),
                                  !.input_height = h.value,
                                  !.input_fps = f.value]]
                 /\ Touch(r, {input_path})
                 /\ pc' = [pc EXCEPT ![r] = FirstStep(p.mode)]
                 /\ UNCHANGED <<files, response, failure>>
    /\ UNCHANGED <<norm, req, engineLog, nextToken>>

----------------------------------------------------------------------------
(* Simple *)

Padded(p) == p.start_pause_seconds > 0 \/ p.end_pause_seconds > 0

\* needs_encode deciding on the scale alone
NeedsEncodeForScaleOnly(target_resolution, speed) ==
    /\ target_resolution # Original
    /\ _scale_height_from_resolution(target_resolution) # 0

\* needs_encode of simple_loop
NeedsEncode(target_resolution, speed) ==
    \/ target_resolution # Original
       /\ _scale_height_from_resolution(target_resolution) # 0
    \/ speed # 10

\* the file the loop stage of simple_loop reads
LoopSource(p, pl) ==
    IF Padded(p) THEN TempPath("paused", pl.input_path)
    ELSE IF NeedsEncode(pl.target_resolution, pl.speed)
    THEN TempPath("prepared", pl.input_path)
    ELSE pl.input_path

\* simple_loop up to the loop stage: the padded or prepared clip
simple_loop_prepare(r) ==
    /\ pc[r] = "simple_prepare"
    /\ LET p == req[r]
           pl == plan[r]
           loop_source == LoopSource(p, pl)
           dur == pl.effective_duration
                    + (IF Padded(p)
                       THEN Deci(p.start_pause_seconds) + Deci(p.end_pause_seconds)
                       ELSE 0)
           inv(ok) == Invocation(loop_source.role, {pl.input_path}, loop_source, 0, ok)
       IN  IF loop_source = pl.input_path
           THEN /\ plan' = [plan EXCEPT ![r].loop_source = loop_source]
                /\ pc' = [pc EXCEPT ![r] = "simple_repeat"]
                /\ UNCHANGED <<norm, req, files, response, failure, engineLog, probeLog,
                               touched, nextToken>>
           ELSE \/ /\ Ran(r, inv(TRUE))
                   /\ files' = WriteFile(files, loop_source, r, dur)
                   /\ Touch(r, {pl.input_path, loop_source})
                   /\ plan' = [plan EXCEPT ![r].loop_source = loop_source]
                   /\ pc' = [pc EXCEPT ![r] = "simple_repeat"]
                   /\ UNCHANGED <<norm, req, response, failure, probeLog, nextToken>>
                \/ EngineFails(r, inv(FALSE), files)

\* -stream_loop loops-1 with -t target_duration, stream-copied
Repeated(source_duration, loops, limit) == Min(loops * source_duration, limit)

\* simple_loop from the loop stage on
simple_loop_repeat(r) ==
    /\ pc[r] = "simple_repeat"
    /\ LET p == req[r]
           pl == plan[r]
           source == pl.loop_source
           dur == Repeated(files[source].dur, pl.loops, Sec(p.duration_seconds))
           inv(ok) == Invocation("repeat", {source}, pl.output_path, pl.loops - 1, ok)
           temps == IF source # pl.input_path THEN {source} ELSE {}
       IN  \/ /\ Ran(r, inv(TRUE))
              /\ files' = Unlink(WriteFile(files, pl.output_path, r, dur), temps)
              /\ Touch(r, {source, pl.output_path})
              /\ plan' = [plan EXCEPT ![r].cycle_duration = files[source].dur,
                                      ![r].output_duration = dur]
              /\ pc' = [pc EXCEPT ![r] = "upload"]
              /\ UNCHANGED <<norm, req, response, failure, probeLog, nextToken>>
           \/ EngineFails(r, inv(FALSE), files)

----------------------------------------------------------------------------
(* Upload: main.py after process returned *)

upload(r) ==
    /\ pc[r] = "upload"
    /\ LET pl == plan[r]
       IN  /\ files' = Unlink(files, {pl.input_path, pl.output_path})
           /\ Touch(r, {pl.input_path, pl.output_path})
           /\ \/ /\ response' = [response EXCEPT ![r] = 200]
                 /\ UNCHANGED failure
              \/ /\ response' = [response EXCEPT ![r] = 500]
                 /\ failure' = [failure EXCEPT ![r] = "upload"]
           /\ pc' = [pc EXCEPT ![r] = "done"]
    /\ UNCHANGED <<norm, req, plan, engineLog, probeLog, nextToken>>

----------------------------------------------------------------------------
(* PingPong *)

\* stream_pause is built exactly when end_pause_seconds > 0
HasPause(p) == p.end_pause_seconds > 0

\* scale_height of pingpong_loop; 0 is None
ScaleHeight(target_resolution) ==
    IF target_resolution # Original
    THEN _scale_height_from_resolution(target_resolution)
    ELSE 0

\* the early scale taken whenever a scale is wanted
ScaleFirstAlways(target_resolution, input_height) ==
    ScaleHeight(target_resolution) # 0

\* scale_first: a downscale is done before the other filters
ScaleFirst(target_resolution, input_height) ==
    /\ ScaleHeight(target_resolution) # 0
    /\ input_height > 0
    /\ ScaleHeight(target_resolution) < input_height

\* stream_v: the filters every segment shares, in order
SharedStages(pl) ==
    (IF ScaleFirst(pl.target_resolution, pl.input_height) THEN <<"scale">> ELSE <<>>)
      \o (IF pl.speed # 10 THEN <<"setpts", "fps">> ELSE <<>>)

\* the scale applied to a segment just before it is written
ScaleLast(pl) ==
    IF /\ ScaleHeight(pl.target_resolution) # 0
       /\ ~ScaleFirst(pl.target_resolution, pl.input_height)
    THEN <<"scale">>
    ELSE <<>>

stream_a(p, pl) ==
    SharedStages(pl)
      \o (IF p.start_pause_seconds > 0 THEN <<"tpad_start">> ELSE <<>>)
      \o (IF p.end_pause_seconds > 0 THEN <<"tpad_stop">> ELSE <<>>)
      \o ScaleLast(pl)

stream_b(p, pl) == SharedStages(pl) \o <<"reverse", "setpts_start">> \o ScaleLast(pl)

stream_pause(p, pl) ==
    SharedStages(pl) \o <<"trim", "setpts_start", "tpad_stop">> \o ScaleLast(pl)

\* concat_lines: the segments in the order the concat list names them
concat_lines(p, pl) ==
    <<TempPath("temp_a", pl.input_path), TempPath("temp_b", pl.input_path)>>
      \o (IF p.end_pause_seconds > 0
          THEN <<TempPath("temp_pause", pl.input_path)>>
          ELSE <<>>)

\* an invocation of the concat demuxer together with the list it is given
Listed(inv, lines) == inv @@ [concat |-> lines]

\* segment A: the clip with its start and end pads
SegmentADuration(p, pl) ==
    pl.effective_duration
      + (IF p.start_pause_seconds > 0 THEN Deci(p.start_pause_seconds) ELSE 0)
      + (IF p.end_pause_seconds > 0 THEN Deci(p.end_pause_seconds) ELSE 0)

\* segment P without the trim to one frame
PauseDurationUntrimmed(p, pl) == pl.effective_duration + Deci(p.end_pause_seconds)

\* segment P: one frame held for end_pause_seconds
PauseDuration(p, pl) ==
    OneFrameDuration(pl.input_fps, pl.speed) + Deci(p.end_pause_seconds)

\* to_unlink without the pause segment
to_unlink_without_pause(p, pl) ==
    {TempPath("temp_a", pl.input_path), TempPath("temp_b", pl.input_path),
     TempPath("concat", pl.input_path)}

\* to_unlink after the cycle is concatenated
to_unlink(p, pl) ==
    {TempPath("temp_a", pl.input_path), TempPath("temp_b", pl.input_path),
     TempPath("concat", pl.input_path)}
      \cup (IF p.end_pause_seconds > 0
            THEN {TempPath("temp_pause", pl.input_path)}
            ELSE {})

\* pingpong_loop up to the encode of segment A
pingpong_loop_a(r) ==
    /\ pc[r] = "pingpong_a"
    /\ LET p == req[r]
           pl == plan[r]
           temp_a == TempPath("temp_a", pl.input_path)
           inv(ok) == Filtered(Invocation("temp_a", {pl.input_path}, temp_a, 0, ok),
                               stream_a(p, pl))
       IN  \/ /\ Ran(r, inv(TRUE))
              /\ files' = WriteFile(files, temp_a, r, SegmentADuration(p, pl))
              /\ Touch(r, {pl.input_path, temp_a})
              /\ pc' = [pc EXCEPT ![r] = "pingpong_b"]
              /\ UNCHANGED <<norm, req, plan, response, failure, probeLog, nextToken>>
           \/ EngineFails(r, inv(FALSE), files)

\* the encode of segment B, the reversed clip
pingpong_loop_b(r) ==
    /\ pc[r] = "pingpong_b"
    /\ LET p == req[r]
           pl == plan[r]
           temp_b == TempPath("temp_b", pl.input_path)
           inv(ok) == Filtered(Invocation("temp_b", {pl.input_path}, temp_b, 0, ok),
                               stream_b(p, pl))
       IN  \/ /\ Ran(r, inv(TRUE))
              /\ files' = WriteFile(files, temp_b, r, pl.effective_duration)
              /\ Touch(r, {pl.input_path, temp_b})
              /\ pc' = [pc EXCEPT ![r] =
                          IF HasPause(p) THEN "pingpong_pause" ELSE "pingpong_concat"]
              /\ UNCHANGED <<norm, req, plan, response, failure, probeLog, nextToken>>
           \/ EngineFails(r, inv(FALSE), files)

\* the encode of segment P, when stream_pause is not None
pingpong_loop_pause(r) ==
    /\ pc[r] = "pingpong_pause"
    /\ LET p == req[r]
           pl == plan[r]
           temp_pause == TempPath("temp_pause", pl.input_path)
           inv(ok) == Filtered(Invocation("temp_pause", {pl.input_path}, temp_pause, 0, ok),
                               stream_pause(p, pl))
       IN  \/ /\ Ran(r, inv(TRUE))
              /\ files' = WriteFile(files, temp_pause, r, PauseDuration(p, pl))
              /\ Touch(r, {pl.input_path, temp_pause})
              /\ pc' = [pc EXCEPT ![r] = "pingpong_concat"]
              /\ UNCHANGED <<norm, req, plan, response, failure, probeLog, nextToken>>
           \/ EngineFails(r, inv(FALSE), files)

RECURSIVE TotalDuration(_, _)
TotalDuration(fs, parts) ==
    IF parts = <<>> THEN 0 ELSE fs[Head(parts)].dur + TotalDuration(fs, Tail(parts))

SeqRange(s) == {s[i] : i \in DOMAIN s}

\* the concat list is written, the cycle is stream-copied from it, and the
\* segments and the list are unlinked
pingpong_loop_concat(r) ==
    /\ pc[r] = "pingpong_concat"
    /\ LET p == req[r]
           pl == plan[r]
           cycle_path == TempPath("cycle", pl.input_path)
           concat_list == TempPath("concat", pl.input_path)
           parts == concat_lines(p, pl)
           listed == WriteFile(files, concat_list, r, 0)
           dur == TotalDuration(files, parts)
           inv(ok) == Listed(Invocation("cycle", {concat_list} \cup SeqRange(parts),
                                        cycle_path, 0, ok),
                             parts)
       IN  \/ /\ Ran(r, inv(TRUE))
              /\ files' = Unlink(WriteFile(listed, cycle_path, r, dur), to_unlink(p, pl))
              /\ Touch(r, inv(TRUE).reads \cup {cycle_path} \cup to_unlink(p, pl))
              /\ plan' = [plan EXCEPT ![r].cycle_duration = dur]
              /\ pc' = [pc EXCEPT ![r] = "pingpong_repeat"]
              /\ UNCHANGED <<norm, req, response, failure, probeLog, nextToken>>
           \/ EngineFails(r, inv(FALSE), listed)

\* the cycle is repeated and trimmed to the target, then unlinked
pingpong_loop_repeat(r) ==
    /\ pc[r] = "pingpong_repeat"
    /\ LET p == req[r]
           pl == plan[r]
           cycle_path == TempPath("cycle", pl.input_path)
           dur == Repeated(files[cycle_path].dur, pl.loops, Sec(p.duration_seconds))
           inv(ok) == Invocation("repeat", {cycle_path}, pl.output_path,
                                 pl.loops - 1, ok)
       IN  \/ /\ Ran(r, inv(TRUE))
              /\ files' = Unlink(WriteFile(files, pl.output_path, r, dur), {cycle_path})
              /\ Touch(r, {cycle_path, pl.output_path})
              /\ plan' = [plan EXCEPT ![r].output_duration = dur]
              /\ pc' = [pc EXCEPT ![r] = "upload"]
              /\ UNCHANGED <<norm, req, response, failure, probeLog, nextToken>>
           \/ EngineFails(r, inv(FALSE), files)

----------------------------------------------------------------------------
(* Crossfade *)

\* crossfade_loop up to the encode of the self-dissolved cycle
crossfade_loop_cycle(r) ==
    /\ pc[r] = "crossfade_cycle"
    /\ LET p == req[r]
           pl == plan[r]
           crossfade == Crossfade(Deci(p.crossfade_seconds), pl.effective_duration)
           offset == Offset(pl.effective_duration, crossfade)
           cycle_path == TempPath("cross", pl.input_path)
           inv(ok) == Invocation("cross", {pl.input_path}, cycle_path, 0, ok)
       IN  \/ /\ Ran(r, inv(TRUE))
              /\ files' = WriteFile(files, cycle_path, r,
                                    XfadeDuration(pl.effective_duration, offset))
              /\ Touch(r, {pl.input_path, cycle_path})
              /\ plan' = [plan EXCEPT ![r].crossfade = crossfade]
              /\ pc' = [pc EXCEPT ![r] = "crossfade_repeat"]
              /\ UNCHANGED <<norm, req, response, failure, probeLog, nextToken>>
           \/ EngineFails(r, inv(FALSE), files)

\* the cycle is measured, the repeat count computed from it, and the looped
\* clip stream-copied
crossfade_loop_repeat(r, O) ==
    /\ pc[r] = "crossfade_repeat"
    /\ \E out \in O :
        LET p == req[r]
            pl == plan[r]
            cycle_path == TempPath("cross", pl.input_path)
            looped_path == TempPath("looped", pl.input_path)
            d == get_video_duration(out, files[cycle_path].dur)
            entry == <<"cycle", ProbeStatus(out, d)>>
            cycle_duration == d.value
            loop_count == CrossfadeLoopCount(p.duration_seconds, cycle_duration)
            total_duration == cycle_duration * loop_count
            inv(ok) == Invocation("looped", {cycle_path}, looped_path,
                                  loop_count - 1, ok)
        IN  IF d.raised \/ cycle_duration <= 0
            THEN /\ Probed(r, <<entry>>)
                 /\ Raise(r, "cycle_probe", files, {cycle_path})
                 /\ UNCHANGED <<norm, req, plan, engineLog, nextToken>>
            ELSE \/ /\ Ran(r, inv(TRUE))
                    /\ Probed(r, <<entry>>)
                    /\ files' = WriteFile(files, looped_path, r,
                                    Repeated(cycle_duration, loop_count, total_duration))
                    /\ Touch(r, {cycle_path, looped_path})
                    /\ plan' = [plan EXCEPT ![r].cycle_duration = cycle_duration,
                                            ![r].loop_count = loop_count]
                    /\ pc' = [pc EXCEPT ![r] = "crossfade_wraparound"]
                    /\ UNCHANGED <<norm, req, response, failure, nextToken>>
                 \/ EngineFailsAfter(r, inv(FALSE), files, <<entry>>)

\* trim(start, duration): the interval [start, end) of its input
Trim(start, duration) == [start |-> start, end |-> start + duration]

\* the filter graph of STEP 4: three trims of the looped clip, the xfade of
\* tail into head, and the concat of mid and that dissolve
WraparoundGraph(L, crossfade) ==
    [head |-> Trim(0, crossfade),
     mid |-> Trim(crossfade, L - 3 * crossfade),
     tail |-> Trim(L - 2 * crossfade, crossfade),
     xfade |-> [inputs |-> <<"tail", "head">>, duration |-> crossfade, offset |-> 0],
     concat |-> <<"mid", "tailhead">>]

\* the wraparound pass applied from three windows on
WraparoundAppliesFromThree(L, crossfade) == L >= 3 * crossfade

\* if L > 3 * crossfade
WraparoundApplies(L, crossfade) == L > 3 * crossfade

\* STEP 4: the looped clip is measured; the tail is dissolved into the head
\* and appended to the middle, or the looped clip is copied; the cycle and
\* the looped clip are unlinked
crossfade_loop_wraparound(r, O) ==
    /\ pc[r] = "crossfade_wraparound"
    /\ \E out \in O :
        LET pl == plan[r]
            crossfade == pl.crossfade
            cycle_path == TempPath("cross", pl.input_path)
            looped_path == TempPath("looped", pl.input_path)
            d == get_video_duration(out, files[looped_path].dur)
            entry == <<"looped", ProbeStatus(out, d)>>
            L == d.value
            mid_duration == L - 3 * crossfade
            wrapped == mid_duration + XfadeDuration(crossfade, 0)
            inv(ok) == Filtered(Invocation("wraparound", {looped_path},
                                           pl.output_path, 0, ok),
                                WraparoundGraph(L, crossfade))
            finish(dur) ==
                /\ files' = Unlink(WriteFile(files, pl.output_path, r, dur),
                                   {cycle_path, looped_path})
                /\ Touch(r, {cycle_path, looped_path, pl.output_path})
                /\ plan' = [plan EXCEPT ![r].L = L, ![r].output_duration = dur]
                /\ pc' = [pc EXCEPT ![r] = "upload"]
                /\ UNCHANGED <<norm, req, response, failure, nextToken>>
        IN  IF d.raised
            THEN /\ Probed(r, <<entry>>)
                 /\ Raise(r, "looped_probe", files, {looped_path})
                 /\ UNCHANGED <<norm, req, plan, engineLog, nextToken>>
            ELSE IF WraparoundApplies(L, crossfade)
            THEN \/ /\ Ran(r, inv(TRUE))
                    /\ Probed(r, <<entry>>)
                    /\ finish(wrapped)
                 \/ /\ Ran(r, inv(FALSE))
                    /\ Probed(r, <<entry>>)
                    /\ Raise(r, "engine", files, {looped_path, pl.output_path})
                    /\ plan' = [plan EXCEPT ![r].L = L]
                    /\ UNCHANGED <<norm, req, nextToken>>
            ELSE \* shutil.copy2(looped_path, output_path)
                 /\ Probed(r, <<entry>>)
                 /\ finish(files[looped_path].dur)
                 /\ UNCHANGED engineLog

----------------------------------------------------------------------------
(* Specifications *)

Step(r, P, O) ==
    \/ process_video(r, P)
    \/ process(r, O)
    \/ simple_loop_prepare(r)
    \/ simple_loop_repeat(r)
    \/ pingpong_loop_a(r)
    \/ pingpong_loop_b(r)
    \/ pingpong_loop_pause(r)
    \/ pingpong_loop_concat(r)
    \/ pingpong_loop_repeat(r)
    \/ crossfade_loop_cycle(r)
    \/ crossfade_loop_repeat(r, O)
    \/ crossfade_loop_wraparound(r, O)
    \/ upload(r)

\* one request, over the whole input grid
Next == Step(1, Requests, ProbeOutcomes)

Spec == Init /\ [][Next]_vars

\* concurrent requests against the shared working directory
NextConcurrent == \E r \in Reqs : Step(r, ExampleRequests, {"ok", "timeout"})

SpecConcurrent == Init /\ [][NextConcurrent]_vars

----------------------------------------------------------------------------
(* The two normalizers called on their own, twice in a row *)

Texts(alphabet, n) == UNION {[1 .. k -> alphabet] : k \in 0 .. n}

ResolutionTokens ==
    SupportedResolutions \cup
        {R480p, <<>>, <<"8", "K">>, <<"o", "r", "i", "g", "i", "n", "a", "l">>}

ResolutionArguments ==
    {PyStr(l \o t \o r) :
        l \in Texts(Whitespace, MaxPad), t \in ResolutionTokens,
        r \in Texts(Whitespace, MaxPad)}
    \cup {PyNone, PyList, PyInt(720), PyFloat(0)}

SpeedAlphabet == {"0", "1", "2", "5", ".", "-", " ", "x"}

SpeedArguments ==
    {PyStr(s) : s \in Texts(SpeedAlphabet, MaxLen)}
    \cup {PyFloat(t) : t \in (0 - MaxSpeed) .. MaxSpeed}
    \cup {PyInt(n) : n \in (0 - (MaxSpeed \div 10)) .. (MaxSpeed \div 10)}
    \cup {PyNone, PyList}

InitNormalize ==
    /\ InitPipeline
    /\ norm \in {[fn |-> "resolution", given |-> x, results |-> <<>>] :
                    x \in ResolutionArguments}
               \cup {[fn |-> "speed", given |-> x, results |-> <<>>] :
                        x \in SpeedArguments}

\* the argument of the next call: the given value, then the last result
Argument == IF norm.results = <<>> THEN norm.given
            ELSE norm.results[Len(norm.results)]

call_normalize_resolution ==
    /\ norm.fn = "resolution"
    /\ Len(norm.results) < 2
    /\ norm' = [norm EXCEPT !.results = Append(@, _normalize_resolution(Argument))]
    /\ UNCHANGED pipeline

call_normalize_speed ==
    /\ norm.fn = "speed"
    /\ Len(norm.results) < 2
    /\ norm' = [norm EXCEPT !.results = Append(@, _normalize_speed(Argument))]
    /\ UNCHANGED pipeline

NextNormalize == call_normalize_resolution \/ call_normalize_speed

SpecNormalize == InitNormalize /\ [][NextNormalize]_vars

----------------------------------------------------------------------------
(* Properties *)

\* the planner ran to its end for request r
Planned(r) ==
    /\ pc[r] \notin {"idle", "process"}
    /\ response[r] # 400
    /\ failure[r] \notin {"duration_probe", "height_probe", "fps_probe"}

Entries(r) == {engineLog[r][i] : i \in DOMAIN engineLog[r]}

ProbeEntries(r) == {probeLog[r][i] : i \in DOMAIN probeLog[r]}

Abs(x) == IF x < 0 THEN -x ELSE x

\* C1: when an engine invocation of a request fails, none of the
\* intermediate artifacts the request materialized (paused or prepared clip,
\* temp_a, temp_b, temp_pause, concat list, cycle clip, looped clip) is left
\* in the working directory when the request has ended.
C1_FailureLeavesNoArtifact ==
    \A r \in Reqs :
        failure[r] = "engine" =>
            \A path \in FilesOf(r) : path.role \notin IntermediateRoles

\* C2: once a request has been answered with success, no file the request
\* created (intermediate artifact, uploaded input, output) is in the working
\* directory.
C2_SuccessLeavesNoFile ==
    \A r \in Reqs :
        response[r] = 200 =>
            /\ FilesOf(r) = {}
            /\ touched[r] \cap DOMAIN files = {}

C2_Witness ==
    \E r \in Reqs :
        /\ response[r] = 200
        /\ req[r].mode = "pingpong"
        /\ req[r].end_pause_seconds > 0
        /\ Len(engineLog[r]) = 5

\* C3: the paths two different requests write, read or unlink are disjoint,
\* and every file an invocation of a request reads or writes is a file that
\* request wrote.
C3_DisjointPaths ==
    \A r1 \in Reqs, r2 \in Reqs :
        r1 # r2 =>
            /\ touched[r1] \cap touched[r2] = {}
            /\ \A e \in Entries(r1) :
                \A path \in (e.reads \cup {e.out}) \cap DOMAIN files :
                    files[path].writer = r1

C3_Witness ==
    \E r1 \in Reqs, r2 \in Reqs :
        /\ r1 # r2
        /\ req[r1].mode = req[r2].mode
        /\ \E p1 \in FilesOf(r1), p2 \in FilesOf(r2) :
            /\ p1.role \in IntermediateRoles
            /\ p1.role = p2.role

\* C4: the duration of the output file differs from target_duration by less
\* than one cycle length, in every mode; in Crossfade mode for the file the
\* wraparound pass emitted.
C4_OutputWithinOneCycle ==
    \A r \in Reqs :
        pc[r] = "upload" =>
            Abs(plan[r].output_duration - Sec(req[r].duration_seconds))
                < plan[r].cycle_duration

\* C5: the planner's repeat count and the repeat count Crossfade recomputes
\* from the measured cycle are at least 1, so no invocation is given a
\* negative stream_loop.
C5_LoopCountAtLeastOne ==
    \A r \in Reqs :
        /\ Planned(r) => plan[r].loops >= 1
        /\ \A e \in Entries(r) :
            /\ e.stream_loop >= 0
            /\ (e.name = "looped" /\ e.ok) => plan[r].loop_count >= 1

C5_Witness ==
    \E r \in Reqs :
        /\ req[r].mode = "crossfade"
        /\ \E e \in Entries(r) : e.name = "looped" /\ e.ok /\ e.stream_loop = 0
        /\ 2 * Sec(req[r].duration_seconds) < plan[r].cycle_duration
        /\ plan[r].loop_count = 1

\* C6: the crossfade window of the self-dissolve is never longer than half
\* the effective clip duration.
C6_WindowAtMostHalfClip ==
    \A r \in Reqs :
        plan[r].crossfade > 0 => 2 * plan[r].crossfade <= plan[r].effective_duration

\* C7: the resolved resolution is 480p in Crossfade mode whatever was
\* requested; otherwise Original becomes 720p when the input is higher than
\* 720 pixels and stays Original when it is not (0 = unknown included), and
\* a requested 720p, 1080p or 4K is kept.
C7_ResolvedResolution ==
    \A r \in Reqs :
        Planned(r) =>
            LET requested == req[r].resolution
                resolved == plan[r].target_resolution
                height == plan[r].input_height
            IN  /\ req[r].mode = "crossfade" => resolved = R480p
                /\ (req[r].mode # "crossfade" /\ requested = Original /\ height > 720)
                      => resolved = R720p
                /\ (req[r].mode # "crossfade" /\ requested = Original /\ height <= 720)
                      => resolved = Original
                /\ (req[r].mode # "crossfade" /\ requested \in {R720p, R1080p, R4K})
                      => resolved = requested

C7_Witness ==
    \E r \in Reqs :
        /\ Planned(r)
        /\ req[r].mode # "crossfade"
        /\ req[r].resolution = Original
        /\ plan[r].input_height = 720
        /\ plan[r].target_resolution = Original

\* C8: a request is answered 400 exactly when its target duration is not
\* positive or its mode is not one of the three tokens, whatever its
\* resolution and speed; a request answered 400 has written no file and run
\* no probe and no engine invocation.
C8_RejectionOnlyStructural ==
    \A r \in Reqs :
        pc[r] # "idle" =>
            /\ response[r] = 400 <=>
                  \/ req[r].duration_seconds <= 0
                  \/ req[r].mode \notin {"simple", "pingpong", "crossfade"}
            /\ response[r] = 400 =>
                  /\ touched[r] = {}
                  /\ FilesOf(r) = {}
                  /\ probeLog[r] = <<>>
                  /\ engineLog[r] = <<>>

C8_Witness ==
    \E r \in Reqs :
        /\ pc[r] = "process"
        /\ req[r].speed \notin {5, 10, 20}
        /\ req[r].resolution \notin SupportedResolutions

\* C9: a failing height or frame-rate probe (error exit, timeout, empty or
\* non-numeric answer) never raises and never fails the request.
C9_ProbeFailureNeverFails ==
    \A r \in Reqs :
        /\ failure[r] \notin {"height_probe", "fps_probe"}
        /\ \A e \in ProbeEntries(r) : e[1] \in {"height", "fps"} => e[2] # "raised"

\* C10, as claimed: in PingPong mode the repeat count is
\* ceil(target_duration / cycle_duration) with cycle_duration =
\* 2 x effective_clip_duration + start_pause + 2 x end_pause.
C10_LoopsFromCycle ==
    \A r \in Reqs :
        (Planned(r) /\ req[r].mode = "pingpong") =>
            plan[r].loops =
                Ceil(Sec(req[r].duration_seconds),
                     2 * plan[r].effective_duration
                       + Deci(req[r].start_pause_seconds)
                       + 2 * Deci(req[r].end_pause_seconds))

\* C10, amended: in PingPong mode the repeat count is
\* ceil(target_duration / effective_clip_duration), the least n >= 1 with
\* n x effective_clip_duration >= target_duration, and the cycle is looped
\* n - 1 extra times; the 8-second example gives 5.
C10_LoopsFromClip ==
    \A r \in Reqs :
        (Planned(r) /\ req[r].mode = "pingpong") =>
            LET n == plan[r].loops
                clip == plan[r].effective_duration
            IN  /\ n >= 1
                /\ n * clip >= Sec(req[r].duration_seconds)
                /\ (n - 1) * clip < Sec(req[r].duration_seconds)
                /\ \A e \in Entries(r) : e.name = "repeat" => e.stream_loop = n - 1
                /\ req[r] = PingPongExample => n = 5

C10_Witness ==
    \E r \in Reqs :
        /\ req[r] = PingPongExample
        /\ \E e \in Entries(r) : e.name = "repeat" /\ e.ok /\ e.stream_loop = 4

\* C11: normalizing an already normalized value changes nothing: for every
\* argument of _normalize_resolution and of _normalize_speed (None, empty,
\* padded, unrecognized, non-numeric and unsupported ones included) the
\* second call returns what the first call returned.
C11_Idempotent ==
    Len(norm.results) = 2 => norm.results[2] = norm.results[1]

\* both normalizers have been called twice on an argument the first call
\* changed: a padded supported resolution, and a numeric text
C11_Witness ==
    /\ norm.fn = "speed"
    /\ Len(norm.results) = 2
    /\ norm.given = PyStr(<<"0", ".", "5">>)
    /\ norm.results[1] = PyFloat(5)

\* the looped clip of request r has been measured
Measured(r) ==
    \E i \in 1 .. Len(probeLog[r]) :
        probeLog[r][i][1] = "looped" /\ probeLog[r][i][2] # "raised"

Wrapped(r) == \E i \in 1 .. Len(engineLog[r]) : engineLog[r][i].name = "wraparound"

\* C12: in Crossfade mode, with L the measured duration of the looped clip
\* and w the window, the wraparound invocation is made exactly when
\* L > 3 * w; when L <= 3 * w no invocation writes the output, the output
\* is the looped clip (cycle_duration * loop_count long), and processing
\* ends without an error: the request goes on to the upload and is answered
\* 200 unless the upload itself fails.
C12_WraparoundExactlyAboveThreeWindows ==
    \A r \in Reqs :
        Measured(r) =>
            /\ Wrapped(r) <=> plan[r].L > 3 * plan[r].crossfade
            /\ ~Wrapped(r) =>
                /\ \A i \in 1 .. Len(engineLog[r]) :
                        engineLog[r][i].out # plan[r].output_path
                /\ plan[r].output_duration =
                        plan[r].cycle_duration * plan[r].loop_count
                /\ pc[r] \in {"upload", "done"}
                /\ failure[r] \in {"none", "upload"}
                /\ pc[r] = "upload" =>
                        /\ plan[r].output_path \in DOMAIN files
                        /\ files[plan[r].output_path].dur = plan[r].output_duration
                /\ pc[r] = "done" /\ failure[r] = "none" => response[r] = 200

\* a looped clip exactly three windows long has been copied and answered 200
C12_Witness ==
    \E r \in Reqs :
        /\ Measured(r)
        /\ plan[r].L > 0
        /\ plan[r].L = 3 * plan[r].crossfade
        /\ ~Wrapped(r)
        /\ pc[r] = "done"
        /\ response[r] = 200

\* C13: when the wraparound pass runs on a looped clip of length L with
\* window w, head is [0, w), mid is [w, L - 2w) and tail is the last w
\* seconds [L - w, L); head and tail are exactly w long, mid is non-empty,
\* and the wrap segment is the dissolve of tail into head at offset 0,
\* concatenated after mid.
C13_WraparoundSegments ==
    \A r \in Reqs :
        \A i \in 1 .. Len(engineLog[r]) :
            engineLog[r][i].name = "wraparound" =>
                LET g == engineLog[r][i].graph
                    L == plan[r].L
                    w == plan[r].crossfade
                IN  /\ g.head = [start |-> 0, end |-> w]
                    /\ g.mid = [start |-> w, end |-> L - 2 * w]
                    /\ g.tail = [start |-> L - w, end |-> L]
                    /\ g.head.end - g.head.start = w
                    /\ g.tail.end - g.tail.start = w
                    /\ g.mid.end > g.mid.start
                    /\ g.xfade = [inputs |-> <<"tail", "head">>, duration |-> w,
                                  offset |-> 0]
                    /\ g.concat = <<"mid", "tailhead">>

\* C14: in Crossfade mode the repeat count is
\* max(1, round(target_duration / cycle_duration)), with cycle_duration the
\* measured duration of the cycle file (Python's round: a tie goes to the
\* even count), and the looped clip is the cycle read with
\* -stream_loop loop_count - 1 and cut to loop_count * cycle_duration.
C14_LoopCountRoundedFromCycle ==
    \A r \in Reqs :
        \A i \in 1 .. Len(engineLog[r]) :
            LET e == engineLog[r][i]
                pl == plan[r]
                cycle_path == TempPath("cross", pl.input_path)
                looped_path == TempPath("looped", pl.input_path)
            IN  e.name = "looped" /\ e.ok =>
                    /\ pl.loop_count =
                            Max(1, Round(Sec(req[r].duration_seconds), pl.cycle_duration))
                    /\ e.reads = {cycle_path}
                    /\ e.out = looped_path
                    /\ e.stream_loop = pl.loop_count - 1
                    /\ pc[r] = "crossfade_wraparound" =>
                            /\ files[cycle_path].dur = pl.cycle_duration
                            /\ files[looped_path].dur =
                                    pl.loop_count * pl.cycle_duration

\* the 2.5 cycles of the tie example have been looped twice, where rounding
\* up, the planner's count and the clip less the window all give another
\* count
C14_Witness ==
    \E r \in Reqs :
        /\ req[r] = TieExample
        /\ pc[r] = "crossfade_wraparound"
        /\ plan[r].cycle_duration = 144
        /\ plan[r].loop_count = 2
        /\ plan[r].loops = 4
        /\ Round(Sec(3), plan[r].effective_duration - plan[r].crossfade) = 8
        /\ files[TempPath("looped", plan[r].input_path)].dur = 288

\* simple_loop of request r has decided what its loop stage reads
PrepareDecided(r) ==
    /\ req[r].mode = "simple"
    /\ pc[r] \in {"simple_repeat", "upload"} \/ engineLog[r] # <<>>

\* C15: in Simple mode an intermediate clip is encoded exactly when the
\* resolved resolution is not Original, the speed is not 1.0, or a start or
\* end pause is positive; when none applies the request makes a single
\* invocation, the loop stage reading the uploaded input itself, and the
\* input is still in the working directory when simple_loop has cleaned up.
C15_IntermediateOnlyWhenNeeded ==
    \A r \in Reqs :
        PrepareDecided(r) =>
            LET p == req[r]
                pl == plan[r]
                needed == \/ pl.target_resolution # Original
                          \/ pl.speed # 10
                          \/ p.start_pause_seconds > 0
                          \/ p.end_pause_seconds > 0
                intermediate ==
                    \E i \in 1 .. Len(engineLog[r]) :
                        /\ engineLog[r][i].out.role \in IntermediateRoles
                        /\ engineLog[r][i].reads = {pl.input_path}
            IN  /\ needed <=> intermediate
                /\ ~needed /\ engineLog[r] # <<>> =>
                        /\ Len(engineLog[r]) = 1
                        /\ engineLog[r][1].reads = {pl.input_path}
                        /\ engineLog[r][1].out = pl.output_path
                        /\ engineLog[r][1].stream_loop = pl.loops - 1
                /\ ~needed /\ pc[r] = "upload" =>
                        /\ pl.input_path \in DOMAIN files
                        /\ FilesOf(r) = {pl.input_path, pl.output_path}

\* the 5 s clip that needs no scaling, remap or padding has been looped
\* from the uploaded input, which is still there
C15_Witness ==
    \E r \in Reqs :
        /\ req[r] = SimpleExample
        /\ pc[r] = "upload"
        /\ Len(engineLog[r]) = 1
        /\ engineLog[r][1].ok
        /\ engineLog[r][1].reads = {plan[r].input_path}
        /\ plan[r].input_path \in DOMAIN files

\* the invocations of a mode in the order its method makes them; the two
\* encodes of simple_loop are alternatives
InvocationOrder(mode) ==
    IF mode = "simple" THEN <<{"paused", "prepared"}, {"repeat"}>>
    ELSE IF mode = "pingpong"
    THEN <<{"temp_a"}, {"temp_b"}, {"temp_pause"}, {"cycle"}, {"repeat"}>>
    ELSE <<{"cross"}, {"looped"}, {"wraparound"}>>

Position(mode, name) ==
    CHOOSE i \in DOMAIN InvocationOrder(mode) : name \in InvocationOrder(mode)[i]

\* a step that starts an invocation of request r appends exactly one entry,
\* after successful invocations only, later in the mode's order than all of
\* them, and reading only files that are the uploaded input, one of the
\* files in own, or the output of an earlier successful invocation that is
\* still in the working directory
StartsInOrder(r, own) ==
    engineLog'[r] # engineLog[r] =>
        LET old == engineLog[r]
            new == engineLog'[r]
            e == new[Len(new)]
            mode == req[r].mode
        IN  /\ new = Append(old, e)
            /\ \A i \in 1 .. Len(old) :
                    /\ old[i].ok
                    /\ Position(mode, old[i].name) < Position(mode, e.name)
            /\ \A f \in e.reads :
                    \/ f = plan[r].input_path /\ f \in DOMAIN files
                    \/ f \in own
                    \/ /\ f \in DOMAIN files
                       /\ \E i \in 1 .. Len(old) : old[i].out = f

\* C16: within one request the invocations run one after another in the
\* mode's fixed order, each at most once; an invocation starts only when
\* every file it reads is the uploaded input or was written by an earlier
\* successful invocation of the request; after a failed invocation no
\* further invocation of the request is started.
C16_SequentialFromInvocations ==
    [][\A r \in Reqs : StartsInOrder(r, {})]_vars

\* C16 as amended: the files an invocation reads are the uploaded input,
\* outputs of earlier successful invocations of the request, or the concat
\* list the request itself writes just before the invocation that reads it.
C16_Sequential ==
    [][\A r \in Reqs :
          StartsInOrder(r, {TempPath("concat", plan[r].input_path)})]_vars

\* all five invocations of a ping-pong request with an end pause have run
C16_Witness ==
    \E r \in Reqs :
        /\ req[r].mode = "pingpong"
        /\ pc[r] = "upload"
        /\ Len(engineLog[r]) = 5
        /\ \A i \in 1 .. 5 :
              /\ engineLog[r][i].ok
              /\ Position("pingpong", engineLog[r][i].name) = i
        /\ TempPath("concat", plan[r].input_path) \in engineLog[r][4].reads

\* the filter occurs in the chain
Has(graph, filter) == \E k \in DOMAIN graph : graph[k] = filter

\* C17: the PingPong cycle is the concatenation, in this order, of A (the
\* forward clip with its start and end pads), B (the reversed clip, not
\* padded) and, exactly when end_pause_seconds > 0, P (one frame padded by
\* end_pause_seconds); the cycle lasts
\* 2 * effective_duration + start_pause + 2 * end_pause to within one frame.
C17_PingPongCycle ==
    \A r \in Reqs :
        \A i \in 1 .. Len(engineLog[r]) :
            req[r].mode = "pingpong" /\ engineLog[r][i].name = "cycle"
                /\ engineLog[r][i].ok =>
                LET p == req[r]
                    pl == plan[r]
                    log == engineLog[r]
                    A == TempPath("temp_a", pl.input_path)
                    B == TempPath("temp_b", pl.input_path)
                    P == TempPath("temp_pause", pl.input_path)
                IN  /\ log[i].concat =
                            IF p.end_pause_seconds > 0 THEN <<A, B, P>> ELSE <<A, B>>
                    /\ log[1].out = A
                    /\ ~Has(log[1].graph, "reverse")
                    /\ Has(log[1].graph, "tpad_start") <=> p.start_pause_seconds > 0
                    /\ Has(log[1].graph, "tpad_stop") <=> p.end_pause_seconds > 0
                    /\ log[2].out = B
                    /\ Has(log[2].graph, "reverse")
                    /\ ~Has(log[2].graph, "tpad_start")
                    /\ ~Has(log[2].graph, "tpad_stop")
                    /\ i = IF p.end_pause_seconds > 0 THEN 4 ELSE 3
                    /\ p.end_pause_seconds > 0 =>
                            /\ log[3].out = P
                            /\ Has(log[3].graph, "trim")
                            /\ Has(log[3].graph, "tpad_stop")
                            /\ ~Has(log[3].graph, "reverse")
                    /\ Abs(pl.cycle_duration
                             - (2 * pl.effective_duration
                                  + Deci(p.start_pause_seconds)
                                  + 2 * Deci(p.end_pause_seconds)))
                          <= OneFrameDuration(pl.input_fps, pl.speed)

\* the 8 s clip with 1 s pauses has been concatenated from A, B and P into
\* a cycle of 19 s and one frame of 1/60 s
C17_Witness ==
    \E r \in Reqs :
        /\ req[r] = PingPongExample
        /\ pc[r] = "pingpong_repeat"
        /\ Len(engineLog[r]) = 4
        /\ Len(engineLog[r][4].concat) = 3
        /\ plan[r].input_fps = 60
        /\ plan[r].cycle_duration = Sec(19) + 2

Count(graph, filter) == Cardinality({k \in DOMAIN graph : graph[k] = filter})

\* C18: in a PingPong request whose resolved resolution is not Original,
\* each of the segments A, B and P is scaled exactly once: when the
\* resolved height is below the input height the scale is the first filter
\* of the shared source, before the time remap and the reverse; otherwise
\* it is the last filter of each segment, after the reverse and the pads,
\* in the segment's own encode before the concatenation. When the resolved
\* resolution is Original no segment is scaled.
C18_OneScalePerSegment ==
    \A r \in Reqs :
        \A i \in 1 .. Len(engineLog[r]) :
            LET e == engineLog[r][i]
                pl == plan[r]
                height == _scale_height_from_resolution(pl.target_resolution)
            IN  req[r].mode = "pingpong"
                    /\ e.name \in {"temp_a", "temp_b", "temp_pause"} =>
                    IF pl.target_resolution = Original
                    THEN Count(e.graph, "scale") = 0
                    ELSE /\ Count(e.graph, "scale") = 1
                         /\ IF height < pl.input_height
                            THEN e.graph[1] = "scale"
                            ELSE e.graph[Len(e.graph)] = "scale"

\* a 1080-line clip resolved to 720p and played at another speed has been
\* reversed after the shared scale and time remap
C18_Witness ==
    \E r \in Reqs :
        /\ req[r].mode = "pingpong"
        /\ plan[r].target_resolution = R720p
        /\ plan[r].input_height = 1080
        /\ Len(engineLog[r]) >= 2
        /\ engineLog[r][2].ok
        /\ engineLog[r][2].graph = <<"scale", "setpts", "fps", "reverse", "setpts_start">>

====
